---- MODULE Spec2Model ----
(***************************************************************************)
(* Query-resolution pipeline of the legal RAG repository: the LangGraph    *)
(* workflow (src/src/orchestration/workflow.py) over a dict-shaped query   *)
(* state, the hybrid retriever (src/src/core/retriever.py) and the         *)
(* cross-encoder reranker (src/src/core/reranker.py).                      *)
(*                                                                         *)
(* Scores are integers.  The fusion weights 0.6 and 0.4 are kept in tenths *)
(* (6 and 4), so a final_score of the model is ten times the code's.       *)
(***************************************************************************)
EXTENDS Integers, Sequences, FiniteSets, TLC

VARIABLES
    pc,          \* workflow: the node the compiled graph runs next
    state,       \* workflow: the QueryState dict of the run in progress
    trace,       \* workflow: the nodes executed so far in this run
    error_log,   \* workflow: every write of state['error'], in order
    calls,       \* workflow: the collaborator calls of this run and how each ended
    args,        \* function specifications: the inputs of the call
    result       \* function specifications: what the call returned

vars == <<pc, state, trace, error_log, calls, args, result>>

----------------------------------------------------------------------------
(* Bounds of the model.                                                    *)

NumChunks == 2      \* chunk ids 1..NumChunks
MaxLen == 2         \* longest list a search returns
MaxTopK == 2        \* largest top_k a function specification passes

ChunkIds == 1..NumChunks
ScoreValues == {0, 1}          \* scores a search may report
TopKs == 0..MaxTopK

Min(a, b) == IF a < b THEN a ELSE b

SeqsUpTo(S, n) == UNION {[1..k -> S] : k \in 0..n}

----------------------------------------------------------------------------
(* Exceptions: a call either returns a value or raises.                    *)

NoExc == "none"
Return(v) == [exc |-> NoExc, value |-> v]
Raise(e) == [exc |-> e]
Raised(r) == r.exc # NoExc

----------------------------------------------------------------------------
(* Dicts (the QueryState, a search result, a candidate): functions from    *)
(* the keys present to their values.                                       *)

Has(st, key) == key \in DOMAIN st
Put(st, key, v) == [k \in DOMAIN st \cup {key} |-> IF k = key THEN v ELSE st[k]]
KeyError(key) == <<"KeyError", key>>

----------------------------------------------------------------------------
(* Search results: a copy of the chunk's metadata plus 'score'.            *)

\* Words of the block _format_chunk renders for a chunk: what build_context counts.
BlockWords(id) == 40 * id

SearchResult(id, s) == [chunk_id |-> id, words |-> BlockWords(id), score |-> s]
SearchResults == {SearchResult(id, s) : id \in ChunkIds, s \in ScoreValues}
ResultLists == SeqsUpTo(SearchResults, MaxLen)

----------------------------------------------------------------------------
(* HybridRetriever                                                         *)

vector_weight == 6
keyword_weight == 4

\* Mutant of MapIndex: the results are collected in a list, never looked up.
MapIndexAppendOnly(map, id) == 0

\* Position of chunk_id in the insertion-ordered results_map, 0 when absent.
MapIndex(map, id) ==
    IF \E i \in 1..Len(map) : map[i].chunk_id = id
    THEN CHOOSE i \in 1..Len(map) : map[i].chunk_id = id
    ELSE 0

\* First loop of _merge_results: every vector result (re)sets its map entry.
RECURSIVE AddVectorResults(_, _)
AddVectorResults(map, vector_results) ==
    IF vector_results = <<>> THEN map
    ELSE LET r == Head(vector_results)
             e == Put(Put(r, "vector_score", r.score), "keyword_score", 0)
             i == MapIndex(map, r.chunk_id)
         IN IF i = 0
            THEN AddVectorResults(Append(map, e), Tail(vector_results))
            ELSE AddVectorResults([map EXCEPT ![i] = e], Tail(vector_results))

\* Second loop: a keyword result updates the entry of its chunk or adds one.
RECURSIVE AddKeywordResults(_, _)
AddKeywordResults(map, keyword_results) ==
    IF keyword_results = <<>> THEN map
    ELSE LET r == Head(keyword_results)
             e == Put(Put(r, "vector_score", 0), "keyword_score", r.score)
             i == MapIndex(map, r.chunk_id)
         IN IF i = 0
            THEN AddKeywordResults(Append(map, e), Tail(keyword_results))
            ELSE AddKeywordResults([map EXCEPT ![i].keyword_score = r.score],
                                   Tail(keyword_results))

\* Mutant of FinalScore: the two weights exchanged.
FinalScoreSwapped(e) == keyword_weight * e.vector_score + vector_weight * e.keyword_score

\* Third loop: the weighted sum, for every entry.
FinalScore(e) == vector_weight * e.vector_score + keyword_weight * e.keyword_score

AddFinalScores(map) ==
    [i \in 1..Len(map) |-> Put(map[i], "final_score", FinalScore(map[i]))]

merge_results(vector_results, keyword_results) ==
    AddFinalScores(AddKeywordResults(AddVectorResults(<<>>, vector_results),
                                     keyword_results))

\* list.sort(key=..., reverse=True): descending and stable.  Element j of the
\* list stands in front of element i when its key is larger, or equal and j
\* came first.
ComesBefore(list, key, j, i) ==
    list[j][key] > list[i][key] \/ (list[j][key] = list[i][key] /\ j < i)

\* Position of element i after the sort: behind all that come before it.
SortedPosition(list, key, i) ==
    Cardinality({j \in 1..Len(list) : ComesBefore(list, key, j, i)}) + 1

\* Mutant of sort_reverse: an ascending sort reversed, which turns ties around.
sort_reverse_ties_reversed(list, key) ==
    [p \in 1..Len(list) |->
        list[CHOOSE i \in 1..Len(list) :
                 Cardinality({j \in 1..Len(list) :
                                 \/ list[j][key] > list[i][key]
                                 \/ list[j][key] = list[i][key] /\ j > i}) + 1 = p]]

sort_reverse(list, key) ==
    [p \in 1..Len(list) |->
        list[CHOOSE i \in 1..Len(list) : SortedPosition(list, key, i) = p]]

\* Mutant of Slice: one element too many.
SliceOneMore(list, top_k) == SubSeq(list, 1, Min(top_k + 1, Len(list)))

\* list[:top_k] for top_k >= 0
Slice(list, top_k) == SubSeq(list, 1, Min(top_k, Len(list)))

\* Mutant of retrieve: a failed keyword search counts as no keyword results.
retrieve_degraded(vector_search, keyword_search, top_k) ==
    IF Raised(vector_search) THEN Raise(vector_search.exc)
    ELSE Return(Slice(sort_reverse(
                          merge_results(vector_search.value,
                                        IF Raised(keyword_search) THEN <<>>
                                        ELSE keyword_search.value),
                          "final_score"),
                      top_k))

\* retrieve: an exception of either search leaves the method at once.
retrieve(vector_search, keyword_search, top_k) ==
    IF Raised(vector_search) THEN Raise(vector_search.exc)
    ELSE IF Raised(keyword_search) THEN Raise(keyword_search.exc)
    ELSE Return(Slice(sort_reverse(merge_results(vector_search.value,
                                                 keyword_search.value),
                                   "final_score"),
                      top_k))

----------------------------------------------------------------------------
(* LegalReranker                                                           *)

\* Values of a candidate's 'title': None or a string, possibly empty.
None == [type |-> "NoneType"]
Str(text) == [type |-> "str", value |-> text]

\* A text is the sequence of its non-empty pieces.
Pieces(text) == IF text = "" THEN <<>> ELSE <<text>>

\* What an f-string puts in for {v}: str(v), and str(None) is 'None'.
Format(v) == IF v.type = "NoneType" THEN "None" ELSE v.value

\* candidate.get('title', '')
GetTitle(candidate) == IF Has(candidate, "title") THEN candidate["title"] ELSE Str("")

\* f"{candidate.get('title', '')} {candidate['text']}"
PairText(candidate) ==
    Pieces(Format(GetTitle(candidate))) \o <<" ">> \o Pieces(candidate["text"])

\* The pairs handed to model.predict: one [query, text] per candidate.
Pairs(query, candidates) ==
    [i \in 1..Len(candidates) |-> <<query, PairText(candidates[i])>>]

\* The calls of model.predict that one rerank call makes: a single call with
\* all pairs.
PredictCalls(query, candidates) == << Pairs(query, candidates) >>

\* Mutant of rerank: the list is cut to top_k before it is sorted.
rerank_slice_first(candidates, predict, top_k) ==
    IF Raised(predict) THEN Raise(predict.exc)
    ELSE LET scored == [i \in 1..Len(candidates) |->
                           Put(candidates[i], "rerank_score", predict.value[i])]
             sorted == sort_reverse(Slice(scored, top_k), "rerank_score")
         IN Return([candidates |-> sorted, returned |-> sorted])

\* Mutant of rerank: when the cross-encoder fails, the candidates are returned
\* in the order they came in.
rerank_fallback(candidates, predict, top_k) ==
    IF Raised(predict)
    THEN Return([candidates |-> candidates, returned |-> Slice(candidates, top_k)])
    ELSE LET scored == [i \in 1..Len(candidates) |->
                           Put(candidates[i], "rerank_score", predict.value[i])]
             sorted == sort_reverse(scored, "rerank_score")
         IN Return([candidates |-> sorted, returned |-> Slice(sorted, top_k)])

\* rerank scores every candidate, writes rerank_score into the candidate dicts,
\* sorts the list it was given in place and returns its first top_k entries.
\* value.candidates is the caller's list after the call, value.returned the
\* list returned.  predict is the outcome of model.predict(pairs).
rerank(candidates, predict, top_k) ==
    IF Raised(predict) THEN Raise(predict.exc)
    ELSE LET scored == [i \in 1..Len(candidates) |->
                           Put(candidates[i], "rerank_score", predict.value[i])]
             sorted == sort_reverse(scored, "rerank_score")
         IN Return([candidates |-> sorted, returned |-> Slice(sorted, top_k)])

----------------------------------------------------------------------------
(* LegalLLMHandler                                                         *)

max_context_tokens == 8000

\* build_context: the blocks of the chunks, in order, up to the first one whose
\* estimated tokens (words * 1.3) would take the total over max_tokens.  Tokens
\* are counted in tenths: 13 per word against 10 * max_tokens.
\* Mutant of PackBlocks: a block that does not fit is skipped (continue for
\* break) and later, smaller blocks are still taken.
RECURSIVE PackBlocksSkipping(_, _, _, _)
PackBlocksSkipping(context_parts, current_tokens10, chunks, max_tokens) ==
    IF chunks = <<>> THEN context_parts
    ELSE LET chunk_tokens10 == 13 * Head(chunks).words
         IN IF current_tokens10 + chunk_tokens10 > 10 * max_tokens
            THEN PackBlocksSkipping(context_parts, current_tokens10,
                                    Tail(chunks), max_tokens)
            ELSE PackBlocksSkipping(Append(context_parts, Head(chunks).chunk_id),
                                    current_tokens10 + chunk_tokens10,
                                    Tail(chunks), max_tokens)

RECURSIVE PackBlocks(_, _, _, _)
PackBlocks(context_parts, current_tokens10, chunks, max_tokens) ==
    IF chunks = <<>> THEN context_parts
    ELSE LET chunk_tokens10 == 13 * Head(chunks).words
         IN IF current_tokens10 + chunk_tokens10 > 10 * max_tokens
            THEN context_parts
            ELSE PackBlocks(Append(context_parts, Head(chunks).chunk_id),
                            current_tokens10 + chunk_tokens10,
                            Tail(chunks), max_tokens)

build_context(chunks, max_tokens) == PackBlocks(<<>>, 0, chunks, max_tokens)

----------------------------------------------------------------------------
(* AnswerValidator                                                         *)
(* An answer is described by what validate reads of it: the required       *)
(* section markers it contains; its mentions, the places where a word is   *)
(* followed by white space and a second word, as <<word, second word>>;    *)
(* whether it holds a URL; and the phrases of its text that lower-case to  *)
(* a speculative phrase, as they are written.  The language model may also *)
(* hand back None instead of text.                                         *)

required_sections == <<"Legal Position:", "Relevant Provisions:", "Disclaimer:">>
speculative_phrases == <<"i think", "probably", "maybe", "might be",
                         "could be interpreted", "in my opinion">>

Answer(sections, citations, url, phrases) ==
    [is_none |-> FALSE, is_empty |-> FALSE, sections |-> sections,
     citations |-> citations, url |-> url, phrases |-> phrases]
NoneAnswer == [is_none |-> TRUE]
\* The empty text "": it is not None and nothing occurs in it.
EmptyAnswer ==
    [is_none |-> FALSE, is_empty |-> TRUE, sections |-> {},
     citations |-> <<>>, url |-> FALSE, phrases |-> {}]

\* str.lower() on the texts of the model: <<text, lower-cased text>> for the
\* texts it changes.
LowerOf == {<<"Might be", "might be">>, <<"PROBABLY", "probably">>,
            <<"I think", "i think">>,
            <<"IPC", "ipc">>, <<"Section", "section">>}
Lower(text) ==
    IF \E pair \in LowerOf : pair[1] = text
    THEN (CHOOSE pair \in LowerOf : pair[1] = text)[2]
    ELSE text

\* What the second word of a mention begins with: \d+ and \d+[a-z]? read its
\* leading digits, and the second also one lower-case letter after them.
\* <<word, its leading digits, the digits and one letter>>; a word that is
\* not listed begins with no digit.
LeadingNumber == {<<"302", "302", "302">>, <<"303", "303", "303">>,
                  <<"21", "21", "21">>, <<"21a", "21", "21a">>,
                  <<"14A", "14", "14">>}
BeginsWithDigits(word) == \E n \in LeadingNumber : n[1] = word
NumberAndLetter(word) == (CHOOSE n \in LeadingNumber : n[1] = word)[3]
NumberOnly(word) == (CHOOSE n \in LeadingNumber : n[1] = word)[2]

\* re.search(r'(Article|Section)\s+\d+', answer)
has_citations(answer) ==
    \E i \in 1..Len(answer.citations) :
        /\ answer.citations[i][1] \in {"Article", "Section"}
        /\ BeginsWithDigits(answer.citations[i][2])
\* re.search(r'https?://\S+', answer)
has_urls(answer) == answer.url

\* Mutant of referenced_sections: the pattern asks for the letter (\d+[a-z]).
referenced_sections_lettered(answer) ==
    LET Matches(mention) == /\ mention[1] \in {"Article", "Section"}
                            /\ BeginsWithDigits(mention[2])
                            /\ NumberAndLetter(mention[2]) # NumberOnly(mention[2])
        found == SelectSeq(answer.citations, Matches)
    IN [i \in 1..Len(found) |-> <<found[i][1], NumberAndLetter(found[i][2])>>]

\* re.findall(r'(Article|Section)\s+(\d+[a-z]?)', answer)
referenced_sections(answer) ==
    LET Matches(mention) == /\ mention[1] \in {"Article", "Section"}
                            /\ BeginsWithDigits(mention[2])
        found == SelectSeq(answer.citations, Matches)
    IN [i \in 1..Len(found) |-> <<found[i][1], NumberAndLetter(found[i][2])>>]

\* {c['chunk_id'] for c in retrieved_chunks}
chunk_ids_in_context(retrieved_chunks) ==
    {retrieved_chunks[i].chunk_id : i \in 1..Len(retrieved_chunks)}

NewValidationResult ==
    [valid |-> TRUE, errors |-> <<>>, warnings |-> <<>>, confidence |-> "high"]

\* valid = False and errors.append(error)
Fail(validation_result, error) ==
    [validation_result EXCEPT !.valid = FALSE, !.errors = Append(@, error)]

\* Check 1: the loop over required_sections, from its i-th element on.
RECURSIVE CheckSections(_, _, _)
CheckSections(validation_result, answer, i) ==
    IF i > Len(required_sections) THEN validation_result
    ELSE CheckSections(
             IF required_sections[i] \notin answer.sections
             THEN Fail(validation_result,
                       <<"Missing required section", required_sections[i]>>)
             ELSE validation_result,
             answer, i + 1)

\* Check 2
CheckCitations(validation_result, answer) ==
    IF ~has_citations(answer)
    THEN Fail(validation_result, <<"No Article/Section citations found">>)
    ELSE validation_result

\* Mutant of CheckUrls: the error is appended and valid is left as it was.
CheckUrlsErrorOnly(validation_result, answer) ==
    IF ~has_urls(answer)
    THEN [validation_result EXCEPT !.errors = Append(@, <<"No source URLs found">>)]
    ELSE validation_result

\* Check 3
CheckUrls(validation_result, answer) ==
    IF ~has_urls(answer)
    THEN Fail(validation_result, <<"No source URLs found">>)
    ELSE validation_result

\* phrase in answer.lower()
InLowered(phrase, answer) == \E written \in answer.phrases : Lower(written) = phrase

\* Mutant of CheckSpeculative: a speculative phrase makes the answer invalid.
RECURSIVE CheckSpeculativeInvalid(_, _, _)
CheckSpeculativeInvalid(validation_result, answer, i) ==
    IF i > Len(speculative_phrases) THEN validation_result
    ELSE CheckSpeculativeInvalid(
             IF InLowered(speculative_phrases[i], answer)
             THEN [validation_result EXCEPT
                       !.valid = FALSE,
                       !.warnings = Append(@, <<"Speculative language detected",
                                                speculative_phrases[i]>>),
                       !.confidence = "medium"]
             ELSE validation_result,
             answer, i + 1)

\* Check 4: the loop over speculative_phrases, from its i-th element on.
RECURSIVE CheckSpeculative(_, _, _)
CheckSpeculative(validation_result, answer, i) ==
    IF i > Len(speculative_phrases) THEN validation_result
    ELSE CheckSpeculative(
             IF InLowered(speculative_phrases[i], answer)
             THEN [validation_result EXCEPT
                       !.warnings = Append(@, <<"Speculative language detected",
                                                speculative_phrases[i]>>),
                       !.confidence = "medium"]
             ELSE validation_result,
             answer, i + 1)

\* Mutant of CheckReferenced: low is written only over high.
CheckReferencedKeepMedium(validation_result, answer, retrieved_chunks) ==
    IF referenced_sections(answer) = <<>> /\ validation_result.confidence = "high"
    THEN [validation_result EXCEPT !.confidence = "low"]
    ELSE validation_result

\* Mutant of CheckReferenced: with no chunk in the context there is nothing
\* the answer could be grounded in, and the confidence is low as well.
CheckReferencedInContext(validation_result, answer, retrieved_chunks) ==
    IF referenced_sections(answer) = <<>>
       \/ chunk_ids_in_context(retrieved_chunks) = {}
    THEN [validation_result EXCEPT !.confidence = "low"]
    ELSE validation_result

\* Check 5: chunk_ids_in_context is built and not used.
CheckReferenced(validation_result, answer, retrieved_chunks) ==
    IF referenced_sections(answer) = <<>>
    THEN [validation_result EXCEPT !.confidence = "low"]
    ELSE validation_result

validate(answer, retrieved_chunks) ==
    IF answer.is_none
    THEN Raise(<<"TypeError", "argument of type 'NoneType' is not iterable">>)
    ELSE Return(CheckReferenced(
                    CheckSpeculative(
                        CheckUrls(
                            CheckCitations(
                                CheckSections(NewValidationResult, answer, 1),
                                answer),
                            answer),
                        answer, 1),
                    answer, retrieved_chunks))

----------------------------------------------------------------------------
(* IntentClassifier                                                        *)
(* A query is the sequence of the words of its text, lower-cased by        *)
(* classify before anything reads it.  A keyword occurs in it when it is   *)
(* part of a word; a phrase of several words when they follow each other.  *)

\* <<part, word>>: part is a proper substring of word (words of the model).
PartOf == {<<"bns", "bnss">>, <<"bail", "bailable">>, <<"right", "rights">>,
           <<"fine", "defined">>, <<"define", "defined">>, <<"fine", "define">>}
\* <<suffix, word>> and <<prefix, word>>
SuffixOf == {<<"fine", "define">>, <<"it", "suit">>}
PrefixOf == {<<"bns", "bnss">>, <<"bail", "bailable">>, <<"right", "rights">>,
             <<"define", "defined">>, <<"i", "ipc">>, <<"i", "is">>}

Sub(kw, word) == kw = word \/ <<kw, word>> \in PartOf
EndsWith(word, kw) == kw = word \/ <<kw, word>> \in SuffixOf
StartsWith(word, kw) == kw = word \/ <<kw, word>> \in PrefixOf

\* `kw in query`, kw a phrase of one, two or three words
Occurs(kw, query) ==
    \E i \in 1..Len(query) :
        IF Len(kw) = 1 THEN Sub(kw[1], query[i])
        ELSE /\ i + Len(kw) - 1 <= Len(query)
             /\ EndsWith(query[i], kw[1])
             /\ StartsWith(query[i + Len(kw) - 1], kw[Len(kw)])
             /\ Len(kw) = 3 => query[i + 1] = kw[2]

AnyOccurs(kws, query) == \E j \in 1..Len(kws) : Occurs(kws[j], query)

DOMAIN_KEYWORDS ==
    << <<"constitutional", << <<"article">>, <<"fundamental", "rights">>,
                              <<"directive", "principles">>, <<"constitution">> >> >>,
       <<"criminal", << <<"ipc">>, <<"bns">>, <<"offense">>, <<"punishment">>,
                        <<"cognizable">>, <<"bailable">>, <<"section">> >> >>,
       <<"procedure_criminal", << <<"crpc">>, <<"bnss">>, <<"arrest">>, <<"bail">>,
                                  <<"investigation">>, <<"trial">> >> >>,
       <<"civil", << <<"cpc">>, <<"suit">>, <<"decree">>, <<"appeal">>,
                     <<"civil", "procedure">> >> >>,
       <<"cyber", << <<"it", "act">>, <<"cyber">>, <<"electronic">>,
                     <<"digital", "signature">>, <<"hacking">> >> >> >>

SECTION_PATTERNS == <<"article", "section", "ipc", "bns", "crpc", "bnss">>

\* re.findall(pattern, query) for one pattern type, tagged "{type}_{number}"
RECURSIVE PatternMatches(_, _, _)
PatternMatches(pattern_type, query, i) ==
    IF i + 1 > Len(query) THEN <<>>
    ELSE IF EndsWith(query[i], pattern_type) /\ BeginsWithDigits(query[i + 1])
         THEN << <<pattern_type, NumberAndLetter(query[i + 1])>> >>
              \o PatternMatches(pattern_type, query, i + 1)
         ELSE PatternMatches(pattern_type, query, i + 1)

RECURSIVE ExtractFrom(_, _)
ExtractFrom(j, query) ==
    IF j > Len(SECTION_PATTERNS) THEN <<>>
    ELSE PatternMatches(SECTION_PATTERNS[j], query, 1) \o ExtractFrom(j + 1, query)

extract_sections(query) == ExtractFrom(1, query)

RECURSIVE FirstDomain(_, _)
FirstDomain(j, query) ==
    IF j > Len(DOMAIN_KEYWORDS) THEN "general"
    ELSE IF AnyOccurs(DOMAIN_KEYWORDS[j][2], query) THEN DOMAIN_KEYWORDS[j][1]
    ELSE FirstDomain(j + 1, query)

\* Mutant of detect_domain: the keyword lists are scanned before the
\* citations are looked at.
detect_domain_keywords_first(query, sections) ==
    IF FirstDomain(1, query) # "general" THEN FirstDomain(1, query)
    ELSE IF \E i \in 1..Len(sections) : sections[i][1] = "article" THEN "constitutional"
    ELSE IF \E i \in 1..Len(sections) : sections[i][1] \in {"ipc", "bns"} THEN "criminal"
    ELSE IF \E i \in 1..Len(sections) : sections[i][1] \in {"crpc", "bnss"}
         THEN "procedure_criminal"
    ELSE "general"

detect_domain(query, sections) ==
    IF \E i \in 1..Len(sections) : sections[i][1] = "article" THEN "constitutional"
    ELSE IF \E i \in 1..Len(sections) : sections[i][1] \in {"ipc", "bns"} THEN "criminal"
    ELSE IF \E i \in 1..Len(sections) : sections[i][1] \in {"crpc", "bnss"}
         THEN "procedure_criminal"
    ELSE FirstDomain(1, query)

\* `"bns_" in s` holds of the tags bns_<n> only: no other tag contains "bns_".
map_to_law(domain, query, sections) ==
    CASE domain = "constitutional" -> "constitution"
      [] domain = "criminal" ->
            IF Occurs(<<"bns">>, query)
               \/ \E i \in 1..Len(sections) : sections[i][1] = "bns"
            THEN "bns" ELSE "ipc"
      [] domain = "procedure_criminal" ->
            IF Occurs(<<"bnss">>, query)
               \/ \E i \in 1..Len(sections) : sections[i][1] = "bnss"
            THEN "bnss" ELSE "crpc"
      [] domain = "civil" -> "cpc"
      [] domain = "cyber" -> "it_act"
      [] OTHER -> "bns"

legal_keywords == << <<"bailable">>, <<"cognizable">>, <<"non-bailable">>,
                     <<"non-cognizable">>, <<"imprisonment">>, <<"fine">>,
                     <<"punishment">>, <<"offense">>, <<"arrest">>, <<"warrant">>,
                     <<"summons">>, <<"bail">> >>

extract_keywords(query) ==
    LET In(kw) == Occurs(kw, query) IN SelectSeq(legal_keywords, In)

\* Mutant of classify_query_type: the penalty words are tried first.
classify_query_type_penalty_first(query) ==
    IF AnyOccurs(<< <<"punishment">>, <<"penalty">>, <<"fine">>,
                    <<"imprisonment">> >>, query)
    THEN "penalty"
    ELSE IF AnyOccurs(<< <<"what", "is">>, <<"define">>, <<"meaning">> >>, query)
    THEN "definition"
    ELSE IF AnyOccurs(<< <<"procedure">>, <<"process">>, <<"how", "to">> >>, query)
    THEN "procedure"
    ELSE IF AnyOccurs(<< <<"right">>, <<"can", "i">>, <<"am", "i", "allowed">> >>, query)
    THEN "rights"
    ELSE "general"

classify_query_type(query) ==
    IF AnyOccurs(<< <<"what", "is">>, <<"define">>, <<"meaning">> >>, query)
    THEN "definition"
    ELSE IF AnyOccurs(<< <<"punishment">>, <<"penalty">>, <<"fine">>,
                         <<"imprisonment">> >>, query)
    THEN "penalty"
    ELSE IF AnyOccurs(<< <<"procedure">>, <<"process">>, <<"how", "to">> >>, query)
    THEN "procedure"
    ELSE IF AnyOccurs(<< <<"right">>, <<"can", "i">>, <<"am", "i", "allowed">> >>, query)
    THEN "rights"
    ELSE "general"

\* Mutant of LowerQuery: the query is read as it was written.
LowerQueryAsWritten(query) == query

\* query.lower()
LowerQuery(query) == [i \in 1..Len(query) |-> Lower(query[i])]

classify(query) ==
    LET query_lower == LowerQuery(query)
        sections == extract_sections(query_lower)
        domain == detect_domain(query_lower, sections)
    IN [domain |-> domain,
        law_type |-> map_to_law(domain, query_lower, sections),
        specific_sections |-> sections,
        keywords |-> extract_keywords(query_lower),
        query_type |-> classify_query_type(query_lower)]

----------------------------------------------------------------------------
(* LegalRAGWorkflow: the compiled graph                                    *)

END == "END"
Nodes == {"classify_intent", "retrieve", "rerank", "generate", "validate"}
EntryPoint == "classify_intent"
Edges == {<<"classify_intent", "retrieve">>, <<"retrieve", "rerank">>,
          <<"rerank", "generate">>, <<"generate", "validate">>,
          <<"validate", END>>}

\* Mutant of NextNode: conditional edges that end the run once error is set.
NextNodeStopOnError(node, st) ==
    IF "error" \in DOMAIN st THEN END
    ELSE CHOOSE n \in Nodes \cup {END} : <<node, n>> \in Edges

\* The node the graph runs after `node` has returned state `st`: the graph has
\* plain edges only, so the state plays no part.
NextNode(node, st) == CHOOSE n \in Nodes \cup {END} : <<node, n>> \in Edges

\* A node's try block completed / its except clause ran.  `exc` is what leaves
\* the node function, `error` what it wrote into state['error'].
Completed(st) == [state |-> st, exc |-> NoExc, error |-> <<>>]
\* Mutants of Except: the handler raises again / the handler records nothing.
ExceptReraise(st, e) == [state |-> Put(st, "error", e), exc |-> e, error |-> <<e>>]
ExceptSwallow(st, e) == [state |-> st, exc |-> NoExc, error |-> <<>>]
\* Mutant of Except: the handler returns a new dict holding query and error.
ExceptFresh(st, e) ==
    [state |-> Put([k \in {"query"} |-> st["query"]], "error", e),
     exc |-> NoExc, error |-> <<e>>]
Except(st, e) == [state |-> Put(st, "error", e), exc |-> NoExc, error |-> <<e>>]

retrieve_top_k == 15
rerank_top_k == 5

\* Mutant of retrieve_node: top_k bounds each search and not the merged list.
retrieve_node_untruncated(st, vector_search, keyword_search) ==
    LET r == retrieve(vector_search, keyword_search, 2 * retrieve_top_k)
    IN IF Raised(r) THEN Except(st, r.exc)
       ELSE Completed(Put(st, "candidates", r.value))

retrieve_node(st, vector_search, keyword_search) ==
    LET r == retrieve(vector_search, keyword_search, retrieve_top_k)
    IN IF Raised(r) THEN Except(st, r.exc)
       ELSE Completed(Put(st, "candidates", r.value))

\* Mutant of rerank_node: a state without candidates is read as one with
\* none (state.get('candidates', [])).
rerank_node_missing_as_empty(st, predict) ==
    IF ~Has(st, "candidates") THEN Completed(Put(st, "final_chunks", <<>>))
    ELSE LET r == rerank(st["candidates"], predict, rerank_top_k)
         IN IF Raised(r) THEN Except(st, r.exc)
            ELSE Completed(Put(Put(st, "candidates", r.value.candidates),
                               "final_chunks", r.value.returned))

rerank_node(st, predict) ==
    IF ~Has(st, "candidates") THEN Except(st, KeyError("candidates"))
    ELSE LET r == rerank(st["candidates"], predict, rerank_top_k)
         IN IF Raised(r) THEN Except(st, r.exc)
            ELSE Completed(Put(Put(st, "candidates", r.value.candidates),
                               "final_chunks", r.value.returned))

classify_intent_node(st) ==
    Completed(Put(st, "intent", classify(st["query"])))

\* Mutant of generate_node: context is stored before the language model is
\* called.
generate_node_context_first(st, llm) ==
    IF ~Has(st, "final_chunks") THEN Except(st, KeyError("final_chunks"))
    ELSE LET context == build_context(st["final_chunks"], max_context_tokens)
         IN IF Raised(llm) THEN Except(Put(st, "context", context), llm.exc)
            ELSE Completed(Put(Put(st, "answer", llm.value), "context", context))

generate_node(st, llm) ==
    IF ~Has(st, "final_chunks") THEN Except(st, KeyError("final_chunks"))
    ELSE LET context == build_context(st["final_chunks"], max_context_tokens)
         IN IF Raised(llm) THEN Except(st, llm.exc)
            ELSE Completed(Put(Put(st, "answer", llm.value), "context", context))

validate_node(st) ==
    IF ~Has(st, "answer") THEN Except(st, KeyError("answer"))
    ELSE IF ~Has(st, "final_chunks") THEN Except(st, KeyError("final_chunks"))
    ELSE LET v == validate(st["answer"], st["final_chunks"])
         IN IF Raised(v) THEN Except(st, v.exc)
            ELSE Completed(Put(st, "validation", v.value))

----------------------------------------------------------------------------
(* The collaborators of a run: what the searches, the cross-encoder and    *)
(* the language model may answer.                                          *)

MaxHits == 1        \* longest list a search returns within a run

Queries == {<<"section", "302", "ipc", "punishment">>,
            <<"what", "is", "bail">>,
            <<"hello">>}

HitLists == SeqsUpTo(SearchResults, MaxHits)
SearchFailure == <<"RuntimeError", "index unavailable">>
PredictFailure == <<"RuntimeError", "cross-encoder failed">>
LLMFailure == <<"APIError", "language model call failed">>
NotCalled == [exc |-> "not called"]

SearchOutcomes == {Raise(SearchFailure)} \cup {Return(l) : l \in HitLists}
PredictOutcomes(n) == {Raise(PredictFailure)} \cup {Return(sc) : sc \in [1..n -> ScoreValues]}

LLMAnswers == {NoneAnswer,
               EmptyAnswer,
               Answer({}, <<>>, FALSE, {}),
               Answer({"Legal Position:", "Relevant Provisions:", "Disclaimer:"},
                      << <<"Section", "303">> >>, TRUE, {}),
               Answer({"Legal Position:", "Relevant Provisions:", "Disclaimer:"},
                      << <<"Section", "303">> >>, TRUE, {"might be"})}
LLMOutcomes == {Raise(LLMFailure)} \cup {Return(a) : a \in LLMAnswers}

Call(fn, outcome) == [fn |-> fn, exc |-> outcome.exc]

----------------------------------------------------------------------------
(* The workflow as a state machine: run starts a run, every other action   *)
(* is the graph running one node.                                          *)

Init ==
    /\ pc = "idle"
    /\ state = <<>>
    /\ trace = <<>>
    /\ error_log = <<>>
    /\ calls = <<>>
    /\ args = <<>>
    /\ result = <<>>

run(query) ==
    /\ pc \in {"idle", END}
    /\ pc' = EntryPoint
    /\ state' = [k \in {"query"} |-> query]
    /\ trace' = <<>>
    /\ error_log' = <<>>
    /\ calls' = <<>>
    /\ UNCHANGED <<args, result>>

\* The graph has run `node`, which ended as r, having made the calls `made`.
Advance(node, r, made) ==
    /\ state' = r.state
    /\ pc' = IF Raised(r) THEN "raised" ELSE NextNode(node, r.state)
    /\ trace' = Append(trace, node)
    /\ error_log' = error_log \o [i \in 1..Len(r.error) |->
                                     [node |-> node, error |-> r.error[i]]]
    /\ calls' = calls \o made
    /\ UNCHANGED <<args, result>>

ClassifyIntent ==
    /\ pc = "classify_intent"
    /\ Advance("classify_intent", classify_intent_node(state), <<>>)

Retrieve ==
    /\ pc = "retrieve"
    /\ \E vs \in SearchOutcomes :
         \E ks \in (IF Raised(vs) THEN {NotCalled} ELSE SearchOutcomes) :
            Advance("retrieve", retrieve_node(state, vs, ks),
                    <<Call("vectorSearch", vs)>>
                    \o (IF Raised(vs) THEN <<>> ELSE <<Call("keywordSearch", ks)>>))

Rerank ==
    /\ pc = "rerank"
    /\ \E p \in (IF Has(state, "candidates")
                 THEN PredictOutcomes(Len(state["candidates"]))
                 ELSE {NotCalled}) :
            Advance("rerank", rerank_node(state, p),
                    IF Has(state, "candidates")
                    THEN <<Call("pairwiseScore", p)>> ELSE <<>>)

Generate ==
    /\ pc = "generate"
    /\ \E llm \in (IF Has(state, "final_chunks") THEN LLMOutcomes ELSE {NotCalled}) :
            Advance("generate", generate_node(state, llm),
                    IF Has(state, "final_chunks")
                    THEN <<Call("generateAnswer", llm)>> ELSE <<>>)

Validate ==
    /\ pc = "validate"
    /\ Advance("validate", validate_node(state),
               IF Has(state, "answer") /\ Has(state, "final_chunks")
               THEN <<Call("validate", validate(state["answer"], state["final_chunks"]))>>
               ELSE <<>>)

Next ==
    \/ \E query \in Queries : run(query)
    \/ ClassifyIntent
    \/ Retrieve
    \/ Rerank
    \/ Generate
    \/ Validate

Spec == Init /\ [][Next]_vars

----------------------------------------------------------------------------
(* Specification of retrieve as a function: the two searches return any    *)
(* lists (repeated chunk ids included) and retrieve is called with any     *)
(* top_k.                                                                  *)

IdleWorkflow ==
    /\ pc = "idle"
    /\ state = <<>>
    /\ trace = <<>>
    /\ error_log = <<>>
    /\ calls = <<>>

UnchangedWorkflow == UNCHANGED <<pc, state, trace, error_log, calls>>

InitRetrieve ==
    /\ IdleWorkflow
    /\ args \in [vector_results : ResultLists, keyword_results : ResultLists]
    /\ result = [called |-> FALSE]

CallRetrieve ==
    /\ ~result.called
    /\ \E k \in TopKs :
          result' = [called |-> TRUE, top_k |-> k,
                     merged |-> merge_results(args.vector_results, args.keyword_results),
                     returned |-> retrieve(Return(args.vector_results),
                                           Return(args.keyword_results), k)]
    /\ UNCHANGED args
    /\ UnchangedWorkflow

NextRetrieve == CallRetrieve

SpecRetrieve == InitRetrieve /\ [][NextRetrieve]_vars

----------------------------------------------------------------------------
(* Specification of rerank as a function: any list of candidates with      *)
(* distinct chunk ids, any scores of the cross-encoder, any top_k.         *)

MaxCandidates == 3  \* longest candidate list handed to rerank

Injective(seq) == \A i, j \in 1..Len(seq) : seq[i] = seq[j] => i = j
CandidateLists ==
    {[i \in 1..Len(ids) |-> [chunk_id |-> ids[i]]] :
        ids \in {q \in SeqsUpTo(1..MaxCandidates, MaxCandidates) : Injective(q)}}

InitRerank ==
    /\ IdleWorkflow
    /\ \E c \in CandidateLists :
         \E sc \in [1..Len(c) -> ScoreValues] :
            args = [candidates |-> c, scores |-> sc]
    /\ result = [called |-> FALSE]

CallRerank ==
    /\ ~result.called
    /\ \E k \in TopKs :
          result' = [called |-> TRUE, top_k |-> k,
                     returned |-> rerank(args.candidates, Return(args.scores), k)]
    /\ UNCHANGED args
    /\ UnchangedWorkflow

NextRerank == CallRerank

SpecRerank == InitRerank /\ [][NextRerank]_vars

----------------------------------------------------------------------------
(* Specification of build_context as a function: any list of chunks whose  *)
(* blocks have any of a few word counts, any of a few token budgets.       *)

MaxChunks == 3      \* longest list of chunks handed to build_context

WordCounts == {10, 20, 30}              \* 13, 26 and 39 estimated tokens
Budgets == {12, 13, 26, 30, 39, 52}     \* max_tokens

ChunkLists ==
    {[i \in 1..Len(ws) |-> [chunk_id |-> i, words |-> ws[i]]] :
        ws \in SeqsUpTo(WordCounts, MaxChunks)}

InitContext ==
    /\ IdleWorkflow
    /\ args \in [chunks : ChunkLists, max_tokens : Budgets]
    /\ result = [called |-> FALSE]

CallBuildContext ==
    /\ ~result.called
    /\ result' = [called |-> TRUE,
                  returned |-> build_context(args.chunks, args.max_tokens)]
    /\ UNCHANGED args
    /\ UnchangedWorkflow

NextContext == CallBuildContext

SpecContext == InitContext /\ [][NextContext]_vars

----------------------------------------------------------------------------
(* Specification of validate as a function: any answer made of the         *)
(* features below, any of a few lists of retrieved chunks.  The call is    *)
(* made a second time with the same answer and no chunk, and a third time  *)
(* with the answer stripped of its speculative phrases.                    *)

MaxPhrases == 2     \* most speculative phrases written in one answer

SectionSets == SUBSET {required_sections[i] : i \in 1..Len(required_sections)}
MentionLists ==
    {<<>>,
     << <<"Section", "302">> >>,
     << <<"Article", "21a">> >>,
     << <<"Article", "14A">> >>,
     << <<"section", "302">> >>,
     << <<"Section", "iv">> >>,
     << <<"Clause", "302">> >>,
     << <<"section", "302">>, <<"Section", "303">> >>}
WrittenPhrases ==
    {speculative_phrases[i] : i \in 1..Len(speculative_phrases)}
        \cup {"Might be", "PROBABLY"}
PhraseSets == {ps \in SUBSET WrittenPhrases : Cardinality(ps) <= MaxPhrases}
Answers ==
    {Answer(sections, citations, url, phrases) :
        sections \in SectionSets, citations \in MentionLists,
        url \in BOOLEAN, phrases \in PhraseSets}
RetrievedLists ==
    {<<>>,
     << [chunk_id |-> 1, words |-> BlockWords(1)] >>,
     << [chunk_id |-> 2, words |-> BlockWords(2)],
        [chunk_id |-> 1, words |-> BlockWords(1)] >>}

InitValidate ==
    /\ IdleWorkflow
    /\ args \in [answer : Answers, retrieved_chunks : RetrievedLists]
    /\ result = [called |-> FALSE]

CallValidate ==
    /\ ~result.called
    /\ result' = [called |-> TRUE,
                  returned |-> validate(args.answer, args.retrieved_chunks),
                  returned_without |-> validate(args.answer, <<>>),
                  returned_plain |-> validate([args.answer EXCEPT !.phrases = {}],
                                              args.retrieved_chunks)]
    /\ UNCHANGED args
    /\ UnchangedWorkflow

NextValidate == CallValidate

SpecValidate == InitValidate /\ [][NextValidate]_vars

----------------------------------------------------------------------------
(* Specification of classify as a function: any query put together from a  *)
(* few parts, and a second query that is the same after lower-casing.  The *)
(* classify_intent node is run on the first query as well.                 *)

MaxParts == 2       \* most parts a query is put together from

QueryParts ==
    {<<"article", "21">>, <<"ipc", "302">>, <<"IPC", "302">>, <<"bnss", "302">>,
     <<"section", "302">>, <<"crpc">>, <<"bns">>, <<"punishment">>, <<"bail">>,
     <<"define">>, <<"what", "is">>, <<"right">>, <<"suit">>, <<"cyber">>,
     <<"process">>, <<"theft">>}

\* The parts that read the same as part once both are lower-cased.
SameLowered(part) ==
    {other \in QueryParts :
        /\ Len(other) = Len(part)
        /\ \A i \in 1..Len(part) : Lower(other[i]) = Lower(part[i])}

\* <<part, other>>: two parts that read the same once lower-cased.
PartPairs == {po \in QueryParts \X QueryParts : po[2] \in SameLowered(po[1])}

\* <<query, other>> for every sequence of at most n parts: the words of the
\* parts, and the words of parts that read the same once lower-cased.
RECURSIVE QueryPairs(_)
QueryPairs(n) ==
    IF n = 0 THEN {<< <<>>, <<>> >>}
    ELSE LET shorter == QueryPairs(n - 1)
         IN shorter \cup {<<pair[1] \o po[1], pair[2] \o po[2]>> :
                              pair \in shorter, po \in PartPairs}

InitClassify ==
    /\ IdleWorkflow
    /\ args \in {[query |-> pair[1], other |-> pair[2]] : pair \in QueryPairs(MaxParts)}
    /\ result = [called |-> FALSE]

CallClassify ==
    /\ ~result.called
    /\ result' = [called |-> TRUE,
                  returned |-> classify(args.query),
                  returned_other |-> classify(args.other),
                  node |-> classify_intent_node([query |-> args.query])]
    /\ UNCHANGED args
    /\ UnchangedWorkflow

NextClassify == CallClassify

SpecClassify == InitClassify /\ [][NextClassify]_vars

----------------------------------------------------------------------------
(* Specification of the retrieve and rerank stages on full-length search   *)
(* results: each search returns up to top_k = 15 hits, the keyword hits    *)
(* overlapping the vector hits wholly, partly or not at all.               *)

\* The first n chunks, scored 1 and 0 in turn / n chunks from `first` on.
VectorHits(n) == [i \in 1..n |-> SearchResult(i, i % 2)]
KeywordHits(n, first) == [i \in 1..n |-> SearchResult(first + i - 1, 1)]
FirstKeywordHits == {1, 3, 6}
\* model.predict: it raises, or scores every pair 0, or 0 and 1 in turn.
PredictPatterns == {"raises", "zeros", "alternating"}
Predict(pattern, n) ==
    CASE pattern = "raises" -> Raise(PredictFailure)
      [] pattern = "zeros" -> Return([i \in 1..n |-> 0])
      [] pattern = "alternating" -> Return([i \in 1..n |-> i % 2])

InitStages ==
    /\ IdleWorkflow
    /\ args \in [nv : 0..retrieve_top_k, nk : 0..retrieve_top_k,
                 first : FirstKeywordHits, predict : PredictPatterns]
    /\ result = [stage |-> "start", state |-> [k \in {"query"} |-> <<"hello">>]]

CallRetrieveNode ==
    /\ result.stage = "start"
    /\ result' = [stage |-> "retrieved",
                  state |-> retrieve_node(result.state,
                                          Return(VectorHits(args.nv)),
                                          Return(KeywordHits(args.nk, args.first))).state]
    /\ UNCHANGED args
    /\ UnchangedWorkflow

CallRerankNode ==
    /\ result.stage = "retrieved"
    /\ result' = [stage |-> "reranked",
                  state |-> rerank_node(result.state,
                                        Predict(args.predict,
                                                Len(result.state["candidates"]))).state]
    /\ UNCHANGED args
    /\ UnchangedWorkflow

NextStages == CallRetrieveNode \/ CallRerankNode

SpecStages == InitStages /\ [][NextStages]_vars

----------------------------------------------------------------------------
(* Specification of the texts rerank hands to the cross-encoder: a few     *)
(* candidates, each with a title, an empty title, a title of None or no    *)
(* title key.                                                              *)

MaxPairs == 3       \* most candidates of one rerank call

Titled(title, text) == [k \in {"title", "text"} |-> IF k = "title" THEN title ELSE text]
Untitled(text) == [k \in {"text"} |-> text]
Bodies == {"Whoever commits murder", "No person shall be deprived"}
TitleValues == {None, Str(""), Str("Murder")}
PairCandidates ==
    {Titled(title, text) : title \in TitleValues, text \in Bodies}
        \cup {Untitled(text) : text \in Bodies}

InitPairs ==
    /\ IdleWorkflow
    /\ args \in [candidates : SeqsUpTo(PairCandidates, MaxPairs)]
    /\ result = [called |-> FALSE]

CallPredict ==
    /\ ~result.called
    /\ result' = [called |-> TRUE,
                  predict_calls |-> PredictCalls(<<"hello">>, args.candidates)]
    /\ UNCHANGED args
    /\ UnchangedWorkflow

NextPairs == CallPredict

SpecPairs == InitPairs /\ [][NextPairs]_vars

----------------------------------------------------------------------------
(* Dicts as objects.  The searches, the merge and the reranker are run on  *)
(* a heap of dicts: a list holds addresses, d.copy() allocates a new dict  *)
(* and d[field] = v changes the dict at an address.  The dicts of the two  *)
(* indices are the first objects of the heap.                              *)

ScoreFields == {"score", "vector_score", "keyword_score", "final_score", "rerank_score"}

\* The heap at the start of a request: the objects, and no write made yet.
NewHeap(objects) == [objects |-> objects, writes |-> {}]

\* Mutant of CopyDict: the dict itself is handed on.
SameDict(h, a) == [h |-> h, address |-> a]

\* d.copy(): a new dict with the items of the dict at address a.
CopyDict(h, a) ==
    [h |-> [h EXCEPT !.objects = Append(@, h.objects[a])],
     address |-> Len(h.objects) + 1]

\* d[field] = v on the dict at address a.
SetItem(h, a, field, v) ==
    [objects |-> [h.objects EXCEPT ![a] = Put(@, field, v)],
     writes |-> h.writes \cup {<<a, field>>}]

\* list[idx] for a Python index, which counts from 0 and from the end when
\* negative.
PyItem(list, idx) == IF idx < 0 THEN list[Len(list) + idx + 1] ELSE list[idx + 1]

\* The loop of VectorStore.search and of KeywordIndex.search over the hits
\* the underlying index reports: <<idx, score>> pairs.
RECURSIVE SearchLoop(_, _, _, _)
SearchLoop(h, metadata, hits, results) ==
    IF hits = <<>> THEN [h |-> h, results |-> results]
    ELSE LET hit == Head(hits)
         IN IF hit.idx < Len(metadata)
            THEN LET c == CopyDict(h, PyItem(metadata, hit.idx))
                 IN SearchLoop(SetItem(c.h, c.address, "score", hit.score),
                               metadata, Tail(hits), Append(results, c.address))
            ELSE SearchLoop(h, metadata, Tail(hits), results)

search(h, metadata, hits) == SearchLoop(h, metadata, hits, <<>>)

\* Position in the insertion-ordered results_map of the entry of a chunk_id,
\* 0 when absent; the map is the list of the addresses of its values.
MapPosition(h, map, id) ==
    IF \E i \in 1..Len(map) : h.objects[map[i]].chunk_id = id
    THEN CHOOSE i \in 1..Len(map) : h.objects[map[i]].chunk_id = id
    ELSE 0

RECURSIVE MergeVector(_, _, _)
MergeVector(h, map, vector_results) ==
    IF vector_results = <<>> THEN [h |-> h, map |-> map]
    ELSE LET r == Head(vector_results)
             i == MapPosition(h, map, h.objects[r].chunk_id)
             c == CopyDict(h, r)
             h1 == SetItem(c.h, c.address, "vector_score", h.objects[r].score)
             h2 == SetItem(h1, c.address, "keyword_score", 0)
         IN IF i = 0
            THEN MergeVector(h2, Append(map, c.address), Tail(vector_results))
            ELSE MergeVector(h2, [map EXCEPT ![i] = c.address], Tail(vector_results))

RECURSIVE MergeKeyword(_, _, _)
MergeKeyword(h, map, keyword_results) ==
    IF keyword_results = <<>> THEN [h |-> h, map |-> map]
    ELSE LET r == Head(keyword_results)
             i == MapPosition(h, map, h.objects[r].chunk_id)
             c == CopyDict(h, r)
             h1 == SetItem(c.h, c.address, "vector_score", 0)
             h2 == SetItem(h1, c.address, "keyword_score", h.objects[r].score)
         IN IF i = 0
            THEN MergeKeyword(h2, Append(map, c.address), Tail(keyword_results))
            ELSE MergeKeyword(SetItem(h, map[i], "keyword_score", h.objects[r].score),
                              map, Tail(keyword_results))

RECURSIVE MergeFinal(_, _, _)
MergeFinal(h, map, i) ==
    IF i > Len(map) THEN h
    ELSE MergeFinal(SetItem(h, map[i], "final_score", FinalScore(h.objects[map[i]])),
                    map, i + 1)

merge_objects(h, vector_results, keyword_results) ==
    LET v == MergeVector(h, <<>>, vector_results)
        k == MergeKeyword(v.h, v.map, keyword_results)
    IN [h |-> MergeFinal(k.h, k.map, 1), results |-> k.map]

\* list.sort(key=lambda x: x[key], reverse=True) on a list of addresses
SortObjects(h, list, key) ==
    LET keyed == [i \in 1..Len(list) |->
                     Put([address |-> list[i]], key, h.objects[list[i]][key])]
        sorted == sort_reverse(keyed, key)
    IN [i \in 1..Len(list) |-> sorted[i].address]

retrieve_objects(h, vector_metadata, keyword_metadata, vector_hits, keyword_hits, top_k) ==
    LET v == search(h, vector_metadata, vector_hits)
        k == search(v.h, keyword_metadata, keyword_hits)
        m == merge_objects(k.h, v.results, k.results)
    IN [h |-> m.h, results |-> Slice(SortObjects(m.h, m.results, "final_score"), top_k)]

RECURSIVE AttachScores(_, _, _, _)
AttachScores(h, candidates, scores, i) ==
    IF i > Len(candidates) THEN h
    ELSE AttachScores(SetItem(h, candidates[i], "rerank_score", scores[i]),
                      candidates, scores, i + 1)

\* rerank on addresses: candidates is the caller's list after the call.
rerank_objects(h, candidates, predict, top_k) ==
    IF Raised(predict) THEN [h |-> h, candidates |-> candidates, returned |-> <<>>]
    ELSE LET h1 == AttachScores(h, candidates, predict.value, 1)
             sorted == SortObjects(h1, candidates, "rerank_score")
         IN [h |-> h1, candidates |-> sorted, returned |-> Slice(sorted, top_k)]

----------------------------------------------------------------------------
(* Specification of the indices over several requests: every request runs *)
(* the two searches, the merge and the reranker on the heap the indices    *)
(* live in.  What is left of a request afterwards is the writes it made    *)
(* and its lists, by value.                                                *)

MaxRuns == 2        \* requests made one after the other

\* metadata of the two indices: one dict per chunk in each, at these addresses
IndexedChunk(id) == [chunk_id |-> id, words |-> BlockWords(id)]
IndexObjects == [a \in 1..(2 * NumChunks) |-> IndexedChunk(((a - 1) % NumChunks) + 1)]
vector_metadata == [i \in 1..NumChunks |-> i]
keyword_metadata == [i \in 1..NumChunks |-> NumChunks + i]

Hit(idx, s) == [idx |-> idx, score |-> s]
\* faiss reports -1 where it has fewer than top_k vectors
VectorHitLists ==
    {<<>>, <<Hit(0, 1)>>, <<Hit(1, 0)>>, <<Hit(0, 1), Hit(1, 0)>>,
     <<Hit(1, 1), Hit(-1, 0)>>, <<Hit(0, 0), Hit(5, 0)>>}
KeywordHitLists ==
    {<<>>, <<Hit(0, 1)>>, <<Hit(1, 1)>>, <<Hit(1, 1), Hit(0, 0)>>}

Values(h, list) == [i \in 1..Len(list) |-> h.objects[list[i]]]

InitIndices ==
    /\ IdleWorkflow
    /\ args = [vector_hits |-> <<>>, keyword_hits |-> <<>>, predict |-> "zeros"]
    /\ result = [runs |-> 0, index |-> IndexObjects, writes |-> {},
                 candidates |-> <<>>, final_chunks |-> <<>>]

RunQuery ==
    /\ result.runs < MaxRuns
    /\ \E vector_hits \in VectorHitLists, keyword_hits \in KeywordHitLists,
          predict \in PredictPatterns :
          LET retrieved == retrieve_objects(NewHeap(result.index),
                                            vector_metadata, keyword_metadata,
                                            vector_hits, keyword_hits, retrieve_top_k)
              reranked == rerank_objects(retrieved.h, retrieved.results,
                                         Predict(predict, Len(retrieved.results)),
                                         rerank_top_k)
          IN /\ args' = [vector_hits |-> vector_hits, keyword_hits |-> keyword_hits,
                         predict |-> predict]
             /\ result' = [runs |-> result.runs + 1,
                           index |-> SubSeq(reranked.h.objects, 1, Len(result.index)),
                           writes |-> reranked.h.writes,
                           candidates |-> Values(reranked.h, reranked.candidates),
                           final_chunks |-> Values(reranked.h, reranked.returned)]
    /\ UnchangedWorkflow

NextIndices == RunQuery

SpecIndices == InitIndices /\ [][NextIndices]_vars

----------------------------------------------------------------------------
(* Specification of two requests on one workflow object.  run is called    *)
(* twice; the graph runs one node of either request at a time, in any      *)
(* order.  What the collaborators answer to each request is fixed          *)
(* beforehand, so that the request can be compared with itself run alone.  *)

Runs == {1, 2}

\* Mutant of StateCell: the state dict is kept on the workflow object.
StateOnWorkflow(r) == 1

\* run makes a new dict for every call: initial_state = {"query": query}.
StateCell(r) == r

CompleteAnswer ==
    Answer({"Legal Position:", "Relevant Provisions:", "Disclaimer:"},
           << <<"Section", "303">> >>, TRUE, {})
Collaborators ==
    [query : Queries,
     vector : {Raise(SearchFailure), Return(VectorHits(2))},
     keyword : {Return(KeywordHits(2, 2))},
     predict : {"raises", "alternating"},
     llm : {Raise(LLMFailure), Return(CompleteAnswer)}]

\* The node function of `node` on the state st, the collaborators answering c.
RunNode(node, st, c) ==
    CASE node = "classify_intent" -> classify_intent_node(st)
      [] node = "retrieve" -> retrieve_node(st, c.vector, c.keyword)
      [] node = "rerank" ->
            rerank_node(st, Predict(c.predict,
                                    IF Has(st, "candidates")
                                    THEN Len(st["candidates"]) ELSE 0))
      [] node = "generate" -> generate_node(st, c.llm)
      [] node = "validate" -> validate_node(st)

\* graph.invoke from `node` on, with nothing else going on.
RECURSIVE InvokeFrom(_, _, _)
InvokeFrom(node, st, c) ==
    IF node = END THEN st
    ELSE LET out == RunNode(node, st, c)
         IN InvokeFrom(NextNode(node, out.state), out.state, c)

RunAlone(c) == InvokeFrom(EntryPoint, [k \in {"query"} |-> c.query], c)

InFlight(r) == result.pc[r] \in Nodes

InitTwoRuns ==
    /\ IdleWorkflow
    /\ args \in [Runs -> Collaborators]
    /\ result = [pc |-> [r \in Runs |-> "idle"],
                 cells |-> [r \in Runs |-> <<>>],
                 overlapped |-> [r \in Runs |-> FALSE],
                 returned |-> [r \in Runs |-> <<>>]]

StartRun(r) ==
    /\ result.pc[r] = "idle"
    /\ result' = [result EXCEPT
                      !.pc[r] = EntryPoint,
                      !.cells[StateCell(r)] = [k \in {"query"} |-> args[r].query]]
    /\ UNCHANGED args
    /\ UnchangedWorkflow

RunNodeOf(r) ==
    /\ InFlight(r)
    /\ LET node == result.pc[r]
           out == RunNode(node, result.cells[StateCell(r)], args[r])
           next == NextNode(node, out.state)
       IN result' = [result EXCEPT
                        !.pc[r] = next,
                        !.cells[StateCell(r)] = out.state,
                        !.overlapped[r] = @ \/ \E o \in Runs \ {r} : InFlight(o),
                        !.returned[r] = IF next = END THEN out.state ELSE @]
    /\ UNCHANGED args
    /\ UnchangedWorkflow

NextTwoRuns == \E r \in Runs : StartRun(r) \/ RunNodeOf(r)

SpecTwoRuns == InitTwoRuns /\ [][NextTwoRuns]_vars

----------------------------------------------------------------------------
(* Properties of the workflow (specification Spec)                         *)

StageOrder == <<"classify_intent", "retrieve", "rerank", "generate", "validate">>
FailedCalls == {i \in 1..Len(calls) : calls[i].exc # NoExc}
Failed(fn) == \E i \in FailedCalls : calls[i].fn = fn

\* C1: in every run the graph runs classify_intent, retrieve, rerank, generate
\* and validate in this order, each once, whatever the collaborators did, and
\* the run has ended exactly when all five have run: what has run so far is
\* always a prefix of the order and the node to run is the next one of it.
C1_StagesInOrder ==
    /\ pc \in Nodes \cup {"idle", END}
    /\ Len(trace) <= Len(StageOrder)
    /\ trace = SubSeq(StageOrder, 1, Len(trace))
    /\ pc \in Nodes => Len(trace) < Len(StageOrder) /\ pc = StageOrder[Len(trace) + 1]
    /\ pc = END => trace = StageOrder

\* A run has ended with all five stages run although retrieve set error.
C1_Witness ==
    /\ pc = END
    /\ trace = StageOrder
    /\ error_log # <<>>
    /\ error_log[1].node = "retrieve"

\* C2: no exception leaves a node: whichever of the searches, the
\* cross-encoder, the language model or the validator failed, the failure is
\* recorded in state['error'] by the node that made the call and the graph
\* goes on to the end of the run, where run returns the state.
C2_NoStageRaises ==
    /\ pc # "raised"
    /\ \A i \in FailedCalls :
          /\ Has(state, "error")
          /\ \E j \in 1..Len(error_log) : error_log[j].error = calls[i].exc
    /\ pc = END => Has(state, "query") /\ trace = StageOrder

\* A run has ended in which the validator itself raised.
C2_Witness ==
    /\ pc = END
    /\ Failed("validate")
    /\ state["error"] = <<"TypeError", "argument of type 'NoneType' is not iterable">>

\* C3: error is written by one stage at most in a run, so the error of the
\* state is the description the first failing stage recorded.
C3_ErrorWrittenOnce ==
    /\ Len(error_log) <= 1
    /\ error_log # <<>> => state["error"] = error_log[1].error

\* C4: a run that ends without error has validation, and with it intent,
\* candidates, final_chunks, answer and context.
C4_NoErrorMeansValidated ==
    (pc = END /\ ~Has(state, "error")) =>
        {"query", "intent", "candidates", "final_chunks", "answer", "context",
         "validation"} \subseteq DOMAIN state

\* A run has ended without error and with a verdict.
C4_Witness ==
    /\ pc = END
    /\ ~Has(state, "error")
    /\ Has(state, "validation")
    /\ state["validation"].valid

\* C9: when the vector search or the keyword search raised, retrieve returned
\* no list: candidates is not written in that run, neither by the retrieve
\* node nor later.
C9_SearchFailureFailsRetrieve ==
    (Failed("vectorSearch") \/ Failed("keywordSearch")) => ~Has(state, "candidates")

\* A run has ended in which the vector search answered and the keyword search
\* raised.
C9_Witness ==
    /\ pc = END
    /\ Failed("keywordSearch")
    /\ ~Failed("vectorSearch")
    /\ error_log[1] = [node |-> "retrieve", error |-> SearchFailure]

\* C11: when the cross-encoder raised, rerank returned nothing: final_chunks
\* is not written in that run (so the candidates never appear under it in
\* their unreranked order) and no candidate carries a rerank_score.
C11_ScoringFailureFailsRerank ==
    Failed("pairwiseScore") =>
        /\ ~Has(state, "final_chunks")
        /\ \A i \in 1..Len(state["candidates"]) :
              ~Has(state["candidates"][i], "rerank_score")

\* A run has ended in which candidates were retrieved and the cross-encoder
\* raised.
C11_Witness ==
    /\ pc = END
    /\ Failed("pairwiseScore")
    /\ Len(state["candidates"]) >= 1
    /\ error_log[1] = [node |-> "rerank", error |-> PredictFailure]

----------------------------------------------------------------------------
(* Properties of retrieve (specification SpecRetrieve)                     *)

Positions(results, id) == {i \in 1..Len(results) : results[i].chunk_id = id}
Reported(results, id) == Positions(results, id) # {}
MaxOf(S) == CHOOSE x \in S : \A y \in S : y <= x
MinOf(S) == CHOOSE x \in S : \A y \in S : x <= y
\* The score a search reported for a chunk (where it reported the chunk more
\* than once, the last one), 0 when it did not report the chunk.
ReportedScore(results, id) ==
    IF Reported(results, id) THEN results[MaxOf(Positions(results, id))].score ELSE 0
\* When a chunk entered the fusion map: vector results first, then keyword results.
FirstPosition(id) ==
    MinOf(Positions(args.vector_results \o args.keyword_results, id))
Fused == result.merged
Retrieved == result.returned.value
Entries(list) == {list[i] : i \in 1..Len(list)}

\* C5: every entry of the fused set, and so of the returned list, has
\* final_score = vector_weight * vector_score + keyword_weight * keyword_score
\* with vector_score and keyword_score the scores the searches reported for
\* its chunk, 0 where a search did not report the chunk; the fused set holds
\* exactly the chunks reported.
C5_FusionWeighting ==
    result.called =>
        /\ \A e \in Entries(Fused) :
              /\ e.vector_score = ReportedScore(args.vector_results, e.chunk_id)
              /\ e.keyword_score = ReportedScore(args.keyword_results, e.chunk_id)
              /\ e.final_score = vector_weight * ReportedScore(args.vector_results, e.chunk_id)
                                 + keyword_weight * ReportedScore(args.keyword_results, e.chunk_id)
        /\ {e.chunk_id : e \in Entries(Fused)} =
              {id \in ChunkIds : Reported(args.vector_results, id)
                                 \/ Reported(args.keyword_results, id)}
        /\ Entries(Retrieved) \subseteq Entries(Fused)

\* One chunk came from the vector search only, another from the keyword search
\* only, both with a score above 0.
C5_Witness ==
    /\ result.called
    /\ \E e, f \in Entries(Retrieved) :
          /\ ~Reported(args.keyword_results, e.chunk_id) /\ e.vector_score > 0
          /\ ~Reported(args.vector_results, f.chunk_id) /\ f.keyword_score > 0

\* C6: retrieve returns at most top_k entries, in non-increasing order of
\* final_score.
C6_Truncation ==
    result.called =>
        /\ Len(Retrieved) <= result.top_k
        /\ \A i \in 1..(Len(Retrieved) - 1) :
              Retrieved[i].final_score >= Retrieved[i + 1].final_score

\* The fused set was longer than top_k and its best entry not its first.
C6_Witness ==
    /\ result.called
    /\ result.top_k >= 1
    /\ Len(Fused) > result.top_k
    /\ Fused[1].final_score < Retrieved[1].final_score

\* C7: entries of equal final_score are returned in the order in which their
\* chunks entered the fusion map (vector results in their order, then the
\* keyword results not yet seen), and of entries of equal final_score the
\* ones that entered first are the ones kept.
C7_TieOrder ==
    result.called =>
        /\ \A i, j \in 1..Len(Retrieved) :
              (i < j /\ Retrieved[i].final_score = Retrieved[j].final_score)
                 => FirstPosition(Retrieved[i].chunk_id) < FirstPosition(Retrieved[j].chunk_id)
        /\ \A e \in Entries(Retrieved) : \A f \in Entries(Fused) \ Entries(Retrieved) :
              e.final_score = f.final_score
                 => FirstPosition(e.chunk_id) < FirstPosition(f.chunk_id)

\* Two entries with the same final_score above 0 were returned.
C7_Witness ==
    /\ result.called
    /\ Len(Retrieved) = 2
    /\ Retrieved[1].final_score = Retrieved[2].final_score
    /\ Retrieved[1].final_score > 0

\* C8: no two entries of the fused list, nor of the returned list, have the
\* same chunk_id.
C8_UniqueChunkIds ==
    result.called =>
        /\ \A i, j \in 1..Len(Fused) : Fused[i].chunk_id = Fused[j].chunk_id => i = j
        /\ \A i, j \in 1..Len(Retrieved) :
              Retrieved[i].chunk_id = Retrieved[j].chunk_id => i = j

\* A search reported a chunk twice and the other search reported it too.
C8_Witness ==
    /\ result.called
    /\ \E id \in ChunkIds :
          /\ Cardinality(Positions(args.vector_results, id)) >= 2
          /\ Reported(args.keyword_results, id)
    /\ Len(Retrieved) >= 1

----------------------------------------------------------------------------
(* Properties of rerank (specification SpecRerank)                         *)

Reranked == result.returned.value.returned
InputPosition(e) ==
    CHOOSE p \in 1..Len(args.candidates) : args.candidates[p].chunk_id = e.chunk_id
\* Candidate p ranks before candidate q: a higher score, or the same score and
\* earlier in the input.
RanksBefore(p, q) ==
    \/ args.scores[p] > args.scores[q]
    \/ args.scores[p] = args.scores[q] /\ p < q

\* C10: rerank returns min(top_k, number of candidates) candidates, each with
\* the rerank_score computed for it, ordered by non-increasing rerank_score
\* with equal scores in input order, and every candidate left out ranks
\* behind every one returned.
C10_RerankOrder ==
    result.called =>
        /\ Len(Reranked) = Min(result.top_k, Len(args.candidates))
        /\ \A i \in 1..Len(Reranked) :
              \E p \in 1..Len(args.candidates) :
                  Reranked[i] = Put(args.candidates[p], "rerank_score", args.scores[p])
        /\ \A i, j \in 1..Len(Reranked) :
              i < j => RanksBefore(InputPosition(Reranked[i]), InputPosition(Reranked[j]))
        /\ \A i \in 1..Len(Reranked) :
              \A p \in 1..Len(args.candidates) :
                  (\A j \in 1..Len(Reranked) : InputPosition(Reranked[j]) # p)
                      => RanksBefore(InputPosition(Reranked[i]), p)

\* Three candidates, the first scored lowest and the other two alike, cut to 2.
C10_Witness ==
    /\ result.called
    /\ result.top_k = 2
    /\ Len(args.candidates) = 3
    /\ args.scores[1] < args.scores[2]
    /\ args.scores[2] = args.scores[3]

----------------------------------------------------------------------------
(* Properties of build_context (specification SpecContext)                 *)

\* Ten times the estimated tokens (words * 1.3) of the first k chunks.
RECURSIVE PrefixTokens10(_)
PrefixTokens10(k) ==
    IF k = 0 THEN 0 ELSE PrefixTokens10(k - 1) + 13 * args.chunks[k].words
Included == Len(result.returned)

\* C12: build_context returns the blocks of a prefix of the chunks, in order;
\* the estimated tokens of that prefix do not exceed max_tokens; the chunk
\* after the prefix, if there is one, would take the total over max_tokens
\* (so the prefix is the longest that fits, nothing behind the first chunk
\* rejected is taken, and the result is empty when the first chunk is over
\* the budget on its own).
C12_ContextBudget ==
    result.called =>
        /\ Included <= Len(args.chunks)
        /\ result.returned = [i \in 1..Included |-> args.chunks[i].chunk_id]
        /\ PrefixTokens10(Included) <= 10 * args.max_tokens
        /\ Included < Len(args.chunks)
              => PrefixTokens10(Included + 1) > 10 * args.max_tokens
        /\ (args.chunks # <<>> /\ 13 * args.chunks[1].words > 10 * args.max_tokens)
              => result.returned = <<>>

\* The first chunk was taken, the second rejected, and the third, which would
\* have fitted, left out.
C12_Witness ==
    /\ result.called
    /\ Len(args.chunks) = 3
    /\ Included = 1
    /\ PrefixTokens10(1) + 13 * args.chunks[3].words <= 10 * args.max_tokens

----------------------------------------------------------------------------
(* Properties of validate (specification SpecValidate)                     *)

Validated == result.called /\ ~Raised(result.returned)
Verdict == result.returned.value

\* The answer holds `Article` or `Section`, written so, then a number.
Cites(answer) ==
    \E i \in 1..Len(answer.citations) :
        /\ answer.citations[i][1] \in {"Article", "Section"}
        /\ BeginsWithDigits(answer.citations[i][2])
\* The answer holds the speculative phrase in any case.
Speculates(answer, phrase) == \E written \in answer.phrases : Lower(written) = phrase

MissingMarkers(answer) ==
    LET Missing(section) == section \notin answer.sections
    IN SelectSeq(required_sections, Missing)
HardRuleErrors(answer) ==
    [i \in 1..Len(MissingMarkers(answer)) |->
        <<"Missing required section", MissingMarkers(answer)[i]>>]
    \o (IF Cites(answer) THEN <<>> ELSE << <<"No Article/Section citations found">> >>)
    \o (IF answer.url THEN <<>> ELSE << <<"No source URLs found">> >>)

\* C13: validate returns valid = true exactly when the answer holds the three
\* markers, an Article|Section <number> citation and a URL; errors lists one
\* message per hard rule that failed (the missing markers in their fixed
\* order, then the citation, then the URL), so valid is true exactly when
\* errors is empty.
C13_ValidIffHardRules ==
    Validated =>
        /\ Verdict.valid <=>
               /\ \A i \in 1..Len(required_sections) :
                      required_sections[i] \in args.answer.sections
               /\ Cites(args.answer)
               /\ args.answer.url
        /\ Verdict.errors = HardRuleErrors(args.answer)
        /\ Verdict.valid <=> Verdict.errors = <<>>
\* An answer with the markers and a citation and no URL: one error, not valid.
C13_Witness ==
    /\ Validated
    /\ Len(MissingMarkers(args.answer)) = 0
    /\ Cites(args.answer)
    /\ ~args.answer.url
    /\ ~Verdict.valid
    /\ Len(Verdict.errors) = 1

Speculative(answer) ==
    \E i \in 1..Len(speculative_phrases) : Speculates(answer, speculative_phrases[i])

\* C14: the confidence validate returns is low when the answer holds no
\* Article|Section <number> citation, whatever the hard rules and the
\* speculative phrases gave; otherwise medium when a listed speculative phrase
\* occurs in it in any case; otherwise high.
C14_Confidence ==
    Validated =>
        Verdict.confidence =
            IF ~Cites(args.answer) THEN "low"
            ELSE IF Speculative(args.answer) THEN "medium"
            ELSE "high"
\* An answer with no citation and a speculative phrase written in capitals:
\* the warning is there and the confidence is low.
C14_Witness ==
    /\ Validated
    /\ ~Cites(args.answer)
    /\ "PROBABLY" \in args.answer.phrases
    /\ Verdict.warnings # <<>>
    /\ Verdict.confidence = "low"

InErrors(error) == \E i \in 1..Len(Verdict.errors) : Verdict.errors[i] = error

\* C15 as stated: some answer makes validate return valid = true together
\* with confidence = low.
C15_ValidLowReachable ==
    result.called =>
        \E answer \in Answers :
            LET returned == validate(answer, args.retrieved_chunks)
            IN /\ ~Raised(returned)
               /\ returned.value.valid
               /\ returned.value.confidence = "low"
\* C15: valid and confidence are not independent.  The confidence is low
\* exactly when the citation hard rule failed, which makes valid false; so
\* valid = true comes with high or medium only, and valid = true with low is
\* not reachable.
C15_ValidImpliesNotLow ==
    Validated =>
        /\ Verdict.confidence = "low" <=> InErrors(<<"No Article/Section citations found">>)
        /\ Verdict.valid => Verdict.confidence \in {"high", "medium"}
        /\ Verdict.confidence = "low" => ~Verdict.valid
\* A valid answer whose confidence was lowered, to medium.
C15_Witness ==
    /\ Validated
    /\ Verdict.valid
    /\ Verdict.confidence = "medium"

\* C16: validate does not look the citations up in the retrieved chunks.  For
\* one answer it returns the same valid, errors, warnings and confidence with
\* any list of retrieved chunks as with the empty list, hence the same with
\* any two lists.
C16_ChunksNotRead ==
    result.called =>
        /\ result.returned = result.returned_without
        /\ ~Raised(result.returned)
        /\ DOMAIN Verdict = {"valid", "errors", "warnings", "confidence"}
\* An answer citing Section 302 and passing every hard rule, validated with
\* two retrieved chunks, neither of which is Section 302.
C16_Witness ==
    /\ Validated
    /\ Len(args.retrieved_chunks) = 2
    /\ args.answer.citations = << <<"Section", "302">> >>
    /\ Verdict.valid
    /\ Verdict.confidence = "high"

----------------------------------------------------------------------------
(* Properties of classify (specification SpecClassify)                     *)

Intent == result.returned
\* The query, in any case, says the word (alone or within a longer word).
Says(word) == \E i \in 1..Len(args.query) : Sub(word, Lower(args.query[i]))
\* One of the extracted citations is tagged with the pattern type.
Tagged(pattern_type) ==
    \E i \in 1..Len(Intent.specific_sections) :
        Intent.specific_sections[i][1] = pattern_type

\* C17: the law_type classify returns is the domain's law: constitution, cpc
\* and it_act for constitutional, civil and cyber; for criminal bns, unless
\* the query or a citation mentions ipc; for procedure_criminal bnss, unless
\* crpc is mentioned; bns for general.
C17_LawType ==
    result.called =>
        Intent.law_type =
            CASE Intent.domain = "constitutional" -> "constitution"
              [] Intent.domain = "criminal" ->
                    IF Says("ipc") \/ Tagged("ipc") THEN "ipc" ELSE "bns"
              [] Intent.domain = "procedure_criminal" ->
                    IF Says("crpc") \/ Tagged("crpc") THEN "crpc" ELSE "bnss"
              [] Intent.domain = "civil" -> "cpc"
              [] Intent.domain = "cyber" -> "it_act"
              [] OTHER -> "bns"

\* The query as classify reads it.
Lowered == [i \in 1..Len(args.query) |-> Lower(args.query[i])]
\* A keyword of the domain's list occurs in the query.
ListHit(domain) ==
    \E j \in 1..Len(DOMAIN_KEYWORDS) :
        /\ DOMAIN_KEYWORDS[j][1] = domain
        /\ AnyOccurs(DOMAIN_KEYWORDS[j][2], Lowered)

\* C18: the domain classify returns is constitutional when a citation is an
\* article; else criminal when one is tagged ipc or bns; else
\* procedure_criminal when one is tagged crpc or bnss; else the first of
\* constitutional, criminal, procedure_criminal, civil, cyber whose keyword
\* list has a keyword occurring in the query; else general.
C18_DomainPrecedence ==
    result.called =>
        Intent.domain =
            IF Tagged("article") THEN "constitutional"
            ELSE IF Tagged("ipc") \/ Tagged("bns") THEN "criminal"
            ELSE IF Tagged("crpc") \/ Tagged("bnss") THEN "procedure_criminal"
            ELSE IF ListHit("constitutional") THEN "constitutional"
            ELSE IF ListHit("criminal") THEN "criminal"
            ELSE IF ListHit("procedure_criminal") THEN "procedure_criminal"
            ELSE IF ListHit("civil") THEN "civil"
            ELSE IF ListHit("cyber") THEN "cyber"
            ELSE "general"
\* A query citing bnss 302 and saying punishment, a keyword of the criminal
\* list, which comes before the procedure_criminal list: the citation wins.
C18_Witness ==
    /\ result.called
    /\ Tagged("bnss")
    /\ Occurs(<<"punishment">>, Lowered)
    /\ Intent.domain = "procedure_criminal"

QueryTypeGroups ==
    << <<"definition", << <<"what", "is">>, <<"define">>, <<"meaning">> >> >>,
       <<"penalty", << <<"punishment">>, <<"penalty">>, <<"fine">>,
                       <<"imprisonment">> >> >>,
       <<"procedure", << <<"procedure">>, <<"process">>, <<"how", "to">> >> >>,
       <<"rights", << <<"right">>, <<"can", "i">>, <<"am", "i", "allowed">> >> >> >>
GroupsHit == {g \in 1..Len(QueryTypeGroups) : AnyOccurs(QueryTypeGroups[g][2], Lowered)}

\* C19: the query_type classify returns is the earliest of the groups
\* definition, penalty, procedure, rights that has a phrase occurring in the
\* query, and general when none has.
C19_QueryTypeOrder ==
    result.called =>
        Intent.query_type =
            IF GroupsHit = {} THEN "general"
            ELSE QueryTypeGroups[CHOOSE g \in GroupsHit : \A h \in GroupsHit : g <= h][1]
\* A query saying `what is` and `punishment`: definition.
C19_Witness ==
    /\ result.called
    /\ GroupsHit = {1, 2}
    /\ Occurs(<<"what", "is">>, Lowered)
    /\ Occurs(<<"punishment">>, Lowered)
    /\ Intent.query_type = "definition"

\* C20: classify depends on the lower-cased query only and returns an intent
\* for every query.  Two queries that are the same once lower-cased get the
\* same domain, law_type, specific_sections, keywords and query_type, and the
\* classify_intent node stores the intent and writes no error.
C20_LowerCasedTotal ==
    result.called =>
        /\ result.returned = result.returned_other
        /\ DOMAIN result.returned =
               {"domain", "law_type", "specific_sections", "keywords", "query_type"}
        /\ result.node.exc = NoExc
        /\ result.node.error = <<>>
        /\ ~Has(result.node.state, "error")
        /\ result.node.state["intent"] = result.returned
\* Two queries that differ in case only, classified by the citation they hold.
C20_Witness ==
    /\ result.called
    /\ args.query # args.other
    /\ Tagged("ipc")
    /\ result.returned.domain = "criminal"
    /\ result.returned_other.domain = "criminal"

----------------------------------------------------------------------------
(* Further properties of the workflow (specification Spec)                 *)

LoggedBy(node) == \E i \in 1..Len(error_log) : error_log[i].node = node
Called(fn) == \E i \in 1..Len(calls) : calls[i].fn = fn

\* C21: a generation failure is recorded when the language-model call raised
\* and when it returned the empty text: once generate has run, a raised call
\* has made generate write error and leave answer unwritten, and an answer
\* that is in the state is not the empty text.
C21_EmptyAnswerIsFailure ==
    "generate" \in {trace[i] : i \in 1..Len(trace)} =>
        /\ Failed("generateAnswer") => LoggedBy("generate") /\ ~Has(state, "answer")
        /\ Has(state, "answer") =>
               state["answer"].is_none \/ ~state["answer"].is_empty

\* A step in which the graph runs a node keeps every field the state had and
\* the value of query.
AdditiveStep ==
    pc \in Nodes =>
        /\ DOMAIN state \subseteq DOMAIN state'
        /\ state'["query"] = state["query"]
        /\ state'["query"] \in Queries

\* C22: the state is mutated additively.  In every step in which the graph
\* runs a node, every field the state had is still there afterwards, and
\* query has the value run gave it.
C22_FieldsOnlyGrow == [][AdditiveStep]_vars
\* The end of a run whose validate stage failed: error has been added to the
\* six fields the earlier stages wrote.
C22_Witness ==
    /\ pc = END
    /\ LoggedBy("validate")
    /\ DOMAIN state = {"query", "intent", "candidates", "final_chunks", "answer",
                       "context", "error"}

\* The fields a stage writes when it succeeds.
Outputs(node) ==
    CASE node = "classify_intent" -> {"intent"}
      [] node = "retrieve" -> {"candidates"}
      [] node = "rerank" -> {"final_chunks"}
      [] node = "generate" -> {"answer", "context"}
      [] node = "validate" -> {"validation"}

\* A step in which a stage caught an exception adds error to the state (or
\* writes it again), writes none of the stage's output fields and leaves every
\* other field as it was.
FailedStepWritesErrorOnly ==
    (pc \in Nodes /\ Len(error_log') > Len(error_log)) =>
        /\ DOMAIN state' = DOMAIN state \cup {"error"}
        /\ Outputs(pc) \cap DOMAIN state' = {}
        /\ \A field \in DOMAIN state \ {"error"} : state'[field] = state[field]
        /\ state'["error"] = error_log'[Len(error_log')].error

\* C25: a stage that fails changes nothing in the state except error: its own
\* output fields are not written and every field written by earlier stages
\* keeps its value.
C25_FailedStageWritesErrorOnly == [][FailedStepWritesErrorOnly]_vars
\* generate has failed on a raising language model: the fields of the earlier
\* stages are there, answer and context are not.
C25_Witness ==
    /\ Failed("generateAnswer")
    /\ LoggedBy("generate")
    /\ Has(state, "final_chunks") /\ Len(state["final_chunks"]) > 0
    /\ ~Has(state, "answer")
    /\ ~Has(state, "context")

\* C26: the rerank stage writes final_chunks only.  Once it has succeeded,
\* candidates holds what the retrieve stage left: entries without a
\* rerank_score, in non-increasing order of final_score.
C26_CandidatesAsRetrieved ==
    (Has(state, "candidates") /\ Has(state, "final_chunks")) =>
        LET candidates == state["candidates"]
        IN /\ \A i \in 1..Len(candidates) : ~Has(candidates[i], "rerank_score")
           /\ \A i, j \in 1..Len(candidates) :
                  i < j => candidates[i]["final_score"] >= candidates[j]["final_score"]

\* C27: when the retrieve stage or the rerank stage has failed in a run, the
\* language model is not called in that run, though the later stages are run;
\* the run ends, all five stages run, in a state that has error and has
\* neither answer nor validation.
C27_NoGenerationAfterFailure ==
    (LoggedBy("retrieve") \/ LoggedBy("rerank")) =>
        /\ ~Called("generateAnswer")
        /\ ~Has(state, "answer")
        /\ ~Has(state, "validation")
        /\ Has(state, "error")
        /\ pc = END => trace = StageOrder
\* The end of a run in which the cross-encoder failed: generate and validate
\* have run and failed in their turn.
C27_Witness ==
    /\ pc = END
    /\ Failed("pairwiseScore")
    /\ LoggedBy("rerank") /\ LoggedBy("generate") /\ LoggedBy("validate")
    /\ ~LoggedBy("retrieve")

----------------------------------------------------------------------------
(* Properties of the retrieve and rerank stages (specification SpecStages) *)

ChunkIdsOf(list) == {list[i]["chunk_id"] : i \in 1..Len(list)}

\* C28: in every state of a run, candidates has at most 15 entries,
\* final_chunks at most 5, and every chunk_id in final_chunks is the chunk_id
\* of an entry of candidates.
C28_StageCaps ==
    /\ Has(result.state, "candidates") => Len(result.state["candidates"]) <= 15
    /\ Has(result.state, "final_chunks") =>
           /\ Len(result.state["final_chunks"]) <= 5
           /\ Has(result.state, "candidates")
           /\ ChunkIdsOf(result.state["final_chunks"])
                  \subseteq ChunkIdsOf(result.state["candidates"])
\* Thirty different chunks found, fifteen by each search: fifteen candidates
\* are kept and five of them are the final chunks.
C28_Witness ==
    /\ result.stage = "reranked"
    /\ args.nv = 15 /\ args.nk = 15 /\ args.first = 6
    /\ Has(result.state, "final_chunks")
    /\ Len(result.state["candidates"]) = 15
    /\ Len(result.state["final_chunks"]) = 5

----------------------------------------------------------------------------
(* Soft rules of the validator                                             *)

ExpectedWarnings(answer) ==
    LET hits == SelectSeq(speculative_phrases, LAMBDA phrase : InLowered(phrase, answer))
    IN [i \in 1..Len(hits) |-> <<"Speculative language detected", hits[i]>>]

\* C29: validate appends exactly one warning for each listed speculative
\* phrase that occurs in the lower-cased answer, in the order of the list, and
\* valid and errors are those of the same answer without any such phrase.
C29_SoftRulesLeaveVerdict ==
    result.called =>
        /\ result.returned.value.warnings = ExpectedWarnings(args.answer)
        /\ result.returned.value.valid = result.returned_plain.value.valid
        /\ result.returned.value.errors = result.returned_plain.value.errors
        /\ result.returned_plain.value.warnings = <<>>

\* An answer that passes every hard rule and writes two listed phrases, one
\* of them in capitals: two warnings in list order, and still valid.
C29_Witness ==
    /\ result.called
    /\ args.answer.phrases = {"PROBABLY", "i think"}
    /\ result.returned.value.warnings =
           << <<"Speculative language detected", "i think">>,
              <<"Speculative language detected", "probably">> >>
    /\ result.returned.value.valid
    /\ result.returned.value.errors = <<>>

----------------------------------------------------------------------------
(* The texts the cross-encoder scores                                      *)

HasTitle(candidate) ==
    /\ Has(candidate, "title")
    /\ candidate["title"] # None
    /\ candidate["title"] # Str("")

\* C30: rerank calls predict once, with one pair per candidate in the order
\* of the candidates; the text of a candidate with a title is the title, a
\* space and the body text, and the text of a candidate without one (no title
\* key, or a title of None) is made of the space and the body text alone.
C30_ScoringText ==
    result.called =>
        /\ Len(result.predict_calls) = 1
        /\ Len(result.predict_calls[1]) = Len(args.candidates)
        /\ \A i \in 1..Len(args.candidates) :
               LET candidate == args.candidates[i]
                   text == result.predict_calls[1][i][2]
               IN IF HasTitle(candidate)
                  THEN text = <<candidate["title"].value, " ", candidate["text"]>>
                  ELSE text = <<" ", candidate["text"]>>

----------------------------------------------------------------------------
(* The indices at query time                                               *)

\* C23: after any number of requests the dicts of the two indices are what
\* they were, and every write of a score field was made on a dict allocated
\* during the request, not on a dict of an index.
C23_IndicesReadOnly ==
    /\ result.index = IndexObjects
    /\ \A w \in result.writes :
           w[2] \in ScoreFields => w[1] > Len(IndexObjects)

\* A second request that wrote each of the five score fields and returned
\* chunks found by both searches.
C23_Witness ==
    /\ result.runs = 2
    /\ {w[2] : w \in result.writes} = ScoreFields
    /\ Len(result.final_chunks) = 2
    /\ \E i \in 1..Len(result.candidates) :
           /\ result.candidates[i].vector_score = 1
           /\ result.candidates[i].keyword_score = 1

----------------------------------------------------------------------------
(* Two requests at a time                                                  *)

\* C24: whatever the order in which the nodes of two requests on the same
\* workflow run, the state each request returns is the state it returns when
\* it runs alone with the same answers of the collaborators.
C24_RunsAreIndependent ==
    \A r \in Runs : result.pc[r] = END => result.returned[r] = RunAlone(args[r])

\* Two requests with different queries whose nodes ran in between each
\* other's: the first ends validated, the second with an error.
C24_Witness ==
    /\ \A r \in Runs : result.pc[r] = END /\ result.overlapped[r]
    /\ args[1].query # args[2].query
    /\ Has(result.returned[1], "validation") /\ ~Has(result.returned[1], "error")
    /\ Has(result.returned[2], "error")
    /\ Len(result.returned[1]["final_chunks"]) = 3

============================================================================
